---- MODULE Spec2Model ----
(***************************************************************************)
(* Model of syne_tune.optimizer.schedulers.median_stopping_rule            *)
(* (class MedianStoppingRule): a scheduler that wraps another scheduler    *)
(* and overrides its on_trial_result decision with STOP when a reported    *)
(* value ranks badly among the values recorded at the same resource level. *)
(*                                                                         *)
(* Numbers.  Metric values are floats in the code.  The model draws the    *)
(* reported values from small integers, so every value the code computes   *)
(* (a negation, a mean of k integers, index / length) is a rational with a *)
(* small denominator, which float64 represents without two different       *)
(* rationals colliding or changing order.  A float is therefore modelled   *)
(* as a reduced fraction <<numerator, denominator>> with denominator > 0.  *)
(*                                                                         *)
(* Optional values.  Python's None is <<>> and a present value x is <<x>>. *)
(***************************************************************************)
EXTENDS Integers, Sequences, FiniteSets, Bags, TLC

\* ------------------------------------------------------------------ bounds

\* Trial ids the driver of Spec reports for: 1..MaxTrial.
MaxTrial == 2
\* Number of reports recorded by the wrapper in one run of Spec.
MaxCalls == 3
\* Largest raw metric value a result of Spec carries: 1..MaxValue.
MaxValue == 2
\* Largest resource level a result of Spec carries: 1..MaxLevel.
MaxLevel == 2
\* The scenario of SpecScenario: number of trials and of reports.
ScenarioTrials == 6
ScenarioCalls == 6

\* ------------------------------------------------------------- vocabulary

None == <<>>
Some(x) == <<x>>
IsNone(o) == o = <<>>

CONTINUE == "CONTINUE"
STOP == "STOP"
PAUSE == "PAUSE"
SchedulerDecision == {CONTINUE, STOP, PAUSE}

\* A defaultdict(list): a function whose missing keys read as the empty list.
Get(d, k) == IF k \in DOMAIN d THEN d[k] ELSE <<>>
Put(d, k, v) == [x \in (DOMAIN d) \cup {k} |-> IF x = k THEN v ELSE d[x]]
EmptyDict == [x \in {} |-> <<>>]

\* ---------------------------------------------------------------- floats

Abs(n) == IF n < 0 THEN -n ELSE n

RECURSIVE Gcd(_, _)
Gcd(a, b) == IF b = 0 THEN a ELSE Gcd(b, a % b)

\* The float n / d (d > 0), as a reduced fraction.
Frac(n, d) ==
    LET g == Gcd(Abs(n), d)
    IN <<n \div g, d \div g>>

FLess(a, b) == a[1] * b[2] < b[1] * a[2]
FLeq(a, b) == a[1] * b[2] <= b[1] * a[2]

RECURSIVE Sum(_)
Sum(s) == IF s = <<>> THEN 0 ELSE Head(s) + Sum(Tail(s))

\* np.mean of a non-empty list of numbers.
Mean(s) == Frac(Sum(s), Len(s))

\* ------------------------------------------------------------------ state

VARIABLES
    \* fields of the MedianStoppingRule instance
    metric,                 \* None or Some(name)
    sorted_results,         \* defaultdict: time_step -> ascending list of floats
    scheduler,              \* the wrapped scheduler
    resource_attr,
    rank_cutoff,            \* a float
    grace_time,             \* None or Some(int)
    min_samples_required,   \* None or Some(int)
    running_average,
    trial_to_results,       \* defaultdict: trial_id -> list of sign-adjusted reports
    mode,
    \* observation of the run, not read by the code
    arg_metric,             \* the metric argument the constructor was given
    reports,                \* trial_id -> raw metric values of its recorded reports
    inserted,               \* time_step -> bag of the values handed to np.insert
    last,                   \* the latest call of a method and how it ended
    delivered,              \* trial_id -> <<metric value, time_step>> of its reports
    \* the other components, each idle while another one runs
    regular_callback,       \* a RegularCallback instance and its clock
    naming,                 \* the latest call of name_from_base
    tuner                   \* the orchestration loop

self_vars == <<metric, sorted_results, scheduler, resource_attr, rank_cutoff,
               grace_time, min_samples_required, running_average,
               trial_to_results, mode>>
params == <<metric, scheduler, resource_attr, rank_cutoff, grace_time,
            min_samples_required, running_average, mode, arg_metric>>
wrapper_vars == <<self_vars, arg_metric, reports, inserted, last, delivered>>
others == <<regular_callback, naming, tuner>>
vars == <<wrapper_vars, others>>

\* A component that is not run is left in this state.
Idle == [op |-> "idle"]
OthersIdle == regular_callback = Idle /\ naming = Idle /\ tuner = Idle

\* ------------------------------------------------- the wrapped scheduler

\* A wrapped scheduler: whether it has a metric attribute (and which), and
\* what its metric_mode() returns.
Schedulers ==
    {[has_metric |-> TRUE, metric |-> "accuracy", mode |-> m] : m \in {"min", "max"}}
    \cup {[has_metric |-> FALSE, metric |-> "", mode |-> m] : m \in {"min", "max"}}

\* ------------------------------------------------------------ __init__

\* Mutant: the wrapped scheduler's metric is not looked at.
InitMetricArgument(a_metric, sched) == a_metric

\* self.metric: the argument, or the wrapped scheduler's metric attribute
\* when the argument is None and the scheduler has one.
InitMetric(a_metric, sched) ==
    IF IsNone(a_metric) /\ sched.has_metric THEN Some(sched.metric) ELSE a_metric

MedianStoppingRule_init(sched, a_resource_attr, a_running_average, a_metric, a_grace_time, a_grace_population, a_rank_cutoff) ==
    /\ metric = InitMetric(a_metric, sched)
    /\ sorted_results = EmptyDict
    /\ scheduler = sched
    /\ resource_attr = a_resource_attr
    /\ rank_cutoff = a_rank_cutoff
    /\ grace_time = a_grace_time
    /\ min_samples_required = a_grace_population
    /\ running_average = a_running_average
    /\ trial_to_results = EmptyDict    \* set, and used, only with running_average
    /\ mode = sched.mode
    /\ arg_metric = a_metric
    /\ reports = EmptyDict
    /\ inserted = EmptyDict
    /\ last = [op |-> "__init__", raised |-> FALSE]

\* ------------------------------------------------------ on_trial_result

\* Mutant: no sign flip.
SignAdjustNever(a_mode, v) == v

\* new_metric after the sign flip of mode "max".
SignAdjust(a_mode, v) == IF a_mode = "max" THEN v * (-1) ELSE v

\* Mutant: the running average is never taken.
EffectiveValueRaw(history, adjusted) == Frac(adjusted, 1)

\* The value that is ranked and recorded: the running average of the trial's
\* observations, or the observation itself.
EffectiveValue(history, adjusted) ==
    IF running_average THEN Mean(history) ELSE Frac(adjusted, 1)

\* np.searchsorted(a, v): binary search for the leftmost position at which v
\* can be inserted into the ascending list a.
RECURSIVE Bisect(_, _, _, _)
Bisect(a, v, lo, hi) ==
    IF lo >= hi THEN lo
    ELSE LET mid == (lo + hi) \div 2
         IN IF FLess(a[mid + 1], v) THEN Bisect(a, v, mid + 1, hi)
            ELSE Bisect(a, v, lo, mid)

\* Mutant: the new value is appended instead of searched a place for.
SearchSortedAppend(a, v) == Len(a)

\* Mutant: the place after the equal values (side="right") instead of before.
SearchSortedRight(a, v) == Cardinality({i \in 1..Len(a) : FLeq(a[i], v)})

SearchSorted(a, v) == Bisect(a, v, 0, Len(a))

\* Mutant: the value is placed at the end, whatever the index.
InsertAtEnd(a, index, v) == Append(a, v)

\* Mutant: the value takes the place of the element at the index.
InsertReplacing(a, index, v) ==
    IF index < Len(a) THEN [a EXCEPT ![index + 1] = v] ELSE Append(a, v)

\* np.insert(a, index, v): v placed before the element at 0-based index.
Insert(a, index, v) == SubSeq(a, 1, index) \o <<v>> \o SubSeq(a, index + 1, Len(a))

\* Mutant: a rank counted from 1.
NormalizedRankFromOne(index, length) == Frac(index + 1, length)

\* Mutant: the rank counts the values after the new one.
NormalizedRankFromEnd(index, length) == Frac(length - 1 - index, length)

NormalizedRank(index, length) == Frac(index, length)

\* Mutant: the population test is <= instead of <.
grace_condition_inclusive(results, time_step) ==
    IF ~IsNone(min_samples_required)
       /\ Len(Get(results, time_step)) <= min_samples_required[1]
    THEN TRUE
    ELSE IF ~IsNone(grace_time) /\ time_step < grace_time[1]
    THEN TRUE
    ELSE FALSE

\* grace_condition(time_step), reading the given sorted results.
grace_condition(results, time_step) ==
    IF ~IsNone(min_samples_required)
       /\ Len(Get(results, time_step)) < min_samples_required[1]
    THEN TRUE
    ELSE IF ~IsNone(grace_time) /\ time_step < grace_time[1]
    THEN TRUE
    ELSE FALSE

\* Mutant: the rank test is < instead of <=.
DelegatesStrictly(grace, normalized_rank) ==
    grace \/ FLess(normalized_rank, rank_cutoff)

\* The condition under which the wrapped scheduler decides.
Delegates(grace, normalized_rank) == grace \/ FLeq(normalized_rank, rank_cutoff)

\* A lookup result[key] raises KeyError when the key is missing.
HasKey(result, key) == ~IsNone(key) /\ key[1] \in DOMAIN result

\* Mutant: the observation is appended to the trial's history before the
\* resource is looked up.
RaiseAfterAppend(trial, result, lookup) ==
    /\ last' = [op |-> "on_trial_result", raised |-> TRUE, lookup |-> lookup,
                keys |-> DOMAIN result, scheduler_calls |-> <<>>]
    /\ trial_to_results' =
           IF lookup = "resource_attr" /\ running_average
           THEN Put(trial_to_results, trial,
                    Append(Get(trial_to_results, trial), result[metric[1]]))
           ELSE trial_to_results
    /\ UNCHANGED <<params, sorted_results, reports, inserted>>

\* The call ends in the KeyError of the given lookup: nothing was changed yet.
Raise(trial, result, lookup) ==
    /\ last' = [op |-> "on_trial_result", raised |-> TRUE, lookup |-> lookup,
                keys |-> DOMAIN result, scheduler_calls |-> <<>>]
    /\ UNCHANGED <<self_vars, arg_metric, reports, inserted>>

on_trial_result(trial, result) ==
    IF ~HasKey(result, metric)
    THEN Raise(trial, result, "metric")
    ELSE IF ~HasKey(result, Some(resource_attr))
    THEN Raise(trial, result, "resource_attr")
    ELSE LET raw == result[metric[1]]
             adjusted == SignAdjust(mode, raw)
             time_step == result[resource_attr]
             history == Append(Get(trial_to_results, trial), adjusted)
             new_metric == EffectiveValue(history, adjusted)
             index == SearchSorted(Get(sorted_results, time_step), new_metric)
             results == Put(sorted_results, time_step,
                            Insert(Get(sorted_results, time_step), index, new_metric))
             normalized_rank == NormalizedRank(index, Len(results[time_step]))
             grace == grace_condition(results, time_step)
             done(calls, decision) ==
                 /\ last' = [op |-> "on_trial_result", raised |-> FALSE,
                             keys |-> DOMAIN result,
                             trial |-> trial, result |-> result,
                             new_metric |-> new_metric, time_step |-> time_step,
                             index |-> index, normalized_rank |-> normalized_rank,
                             grace |-> grace, scheduler_calls |-> calls,
                             decision |-> decision]
         IN /\ trial_to_results' = IF running_average
                                   THEN Put(trial_to_results, trial, history)
                                   ELSE trial_to_results
            /\ sorted_results' = results
            /\ reports' = Put(reports, trial, Append(Get(reports, trial), raw))
            /\ inserted' = Put(inserted, time_step,
                               Get(inserted, time_step) (+) SetToBag({new_metric}))
            /\ IF Delegates(grace, normalized_rank)
               THEN \* the wrapped scheduler decides, whatever it decides
                    \E d \in SchedulerDecision :
                        done(<<[trial |-> trial, result |-> result, returned |-> d]>>, d)
               ELSE done(<<>>, STOP)
            /\ UNCHANGED params

\* ------------------------------- _suggest, metric_names, metric_mode

\* Mutant: the wrapped scheduler's answer is dropped.
ForwardNothing(returned) == None

\* What a method returns that returns the wrapped scheduler's answer.
Forward(returned) == returned

\* A method that calls the same method of the wrapped scheduler with its own
\* arguments and returns what that returns.
PassThrough(method, args, returned) ==
    /\ last' = [op |-> method, raised |-> FALSE, args |-> args,
                scheduler_calls |-> <<[method |-> method, args |-> args,
                                      returned |-> returned]>>,
                returned |-> Forward(returned)]
    /\ UNCHANGED <<self_vars, arg_metric, reports, inserted>>

\* What a wrapped scheduler may answer to _suggest: nothing, or a suggestion.
Suggestions == {None, Some("config_a"), Some("config_b")}
\* What a wrapped scheduler may answer to metric_names.
MetricNameLists == {<<"accuracy">>, <<"accuracy", "loss">>}

suggest(trial_id) ==
    \E s \in Suggestions : PassThrough("_suggest", <<trial_id>>, s)

metric_names == \E names \in MetricNameLists : PassThrough("metric_names", <<>>, names)

metric_mode == PassThrough("metric_mode", <<>>, <<scheduler.mode>>)

\* ------------------------------------------------------------ the driver

Keys == {"accuracy", "loss", "epoch"}

\* The result dictionaries over any subset of Keys, with metric values from
\* values and resource levels from levels.
ResultsOver(keysets, values, levels) ==
    {r \in UNION {[D -> values \cup levels] : D \in keysets} :
        \A k \in DOMAIN r : IF k = "epoch" THEN r[k] \in levels ELSE r[k] \in values}

\* A training script reports one metric, or none, and the resource, or not.
KeySets == {D \in SUBSET Keys : ~({"accuracy", "loss"} \subseteq D)}

Results == ResultsOver(KeySets, 1..MaxValue, 1..MaxLevel)

\* Number of reports recorded so far.
RECURSIVE SumLen(_, _)
SumLen(d, ks) ==
    IF ks = {} THEN 0
    ELSE LET k == CHOOSE x \in ks : TRUE
         IN Len(d[k]) + SumLen(d, ks \ {k})

Recorded == SumLen(sorted_results, DOMAIN sorted_results)

GraceTimes == {None, Some(2)}
GracePopulations == {None, Some(2)}
RankCutoffs == {Frac(0, 1), Frac(1, 2), Frac(3, 2)}

\* The constructor's arguments: every combination of the parameters that
\* decide (around a scheduler that has a metric), and every way of resolving
\* the metric (with the other parameters at their defaults).
Configurations ==
    {[scheduler |-> sched, running_average |-> ra, metric |-> None,
      grace_time |-> gt, grace_population |-> gp, rank_cutoff |-> rc] :
        sched \in {x \in Schedulers : x.has_metric}, ra \in BOOLEAN,
        gt \in GraceTimes, gp \in GracePopulations, rc \in RankCutoffs}
    \cup
    {[scheduler |-> sched, running_average |-> TRUE, metric |-> am,
      grace_time |-> Some(1), grace_population |-> Some(5),
      rank_cutoff |-> Frac(1, 2)] :
        sched \in Schedulers, am \in {None, Some("loss")}}

Construct(c) ==
    MedianStoppingRule_init(c.scheduler, "epoch", c.running_average, c.metric,
                            c.grace_time, c.grace_population, c.rank_cutoff)

Init ==
    /\ \E c \in Configurations : Construct(c)
    /\ delivered = EmptyDict
    /\ OthersIdle

OnTrialResult ==
    \E trial \in 1..MaxTrial, result \in Results :
        /\ Recorded < MaxCalls
        /\ on_trial_result(trial, result)
        /\ UNCHANGED <<delivered, others>>

Next == OnTrialResult

Spec == Init /\ [][Next]_vars

\* ---------------------------------------------------------- all methods

\* The configurations with the two grace tests off or at their defaults.
InterfaceConfigurations ==
    {c \in Configurations :
        /\ c.grace_time # Some(2)
        /\ c.grace_population # Some(2)
        /\ c.rank_cutoff = Frac(1, 2)}

InitInterface ==
    /\ \E c \in InterfaceConfigurations : Construct(c)
    /\ delivered = EmptyDict
    /\ OthersIdle

Suggest ==
    \E trial_id \in 1..MaxTrial :
        suggest(trial_id) /\ UNCHANGED <<delivered, others>>

MetricNames == metric_names /\ UNCHANGED <<delivered, others>>

MetricMode == metric_mode /\ UNCHANGED <<delivered, others>>

NextInterface == OnTrialResult \/ Suggest \/ MetricNames \/ MetricMode

SpecInterface == InitInterface /\ [][NextInterface]_vars

\* ------------------------------------------------------- interleavings

\* The reports of the trials are delivered one at a time, those of one trial
\* in their order, those of different trials in any order; delivered keeps,
\* for each trial, the reports that were recorded, in their order.
OnTrialResultOfAnyTrial ==
    \E trial \in 1..MaxTrial, result \in Results :
        /\ Recorded < MaxCalls
        /\ on_trial_result(trial, result)
        /\ delivered' =
               IF last'.raised THEN delivered
               ELSE Put(delivered, trial,
                        Append(Get(delivered, trial),
                               <<result[metric[1]], result[resource_attr]>>))
        /\ UNCHANGED others

NextInterleaving == OnTrialResultOfAnyTrial

SpecInterleaving == InitInterface /\ [][NextInterleaving]_vars

\* ----------------------------------------------------------- the scenario

\* grace_population 5, grace_time 1, rank_cutoff 0.5, mode "min"; the trials
\* report 10 or 20 at resource level 2.
ScenarioConfiguration ==
    [scheduler |-> [has_metric |-> TRUE, metric |-> "accuracy", mode |-> "min"],
     running_average |-> TRUE, metric |-> None,
     grace_time |-> Some(1), grace_population |-> Some(5),
     rank_cutoff |-> Frac(1, 2)]

ScenarioResults == ResultsOver({{"accuracy", "epoch"}}, {10, 20}, {2})

InitScenario ==
    /\ Construct(ScenarioConfiguration)
    /\ delivered = EmptyDict
    /\ OthersIdle

OnTrialResultScenario ==
    \E trial \in 1..ScenarioTrials, result \in ScenarioResults :
        /\ Recorded < ScenarioCalls
        /\ trial \notin DOMAIN reports    \* distinct trials, one report each
        /\ on_trial_result(trial, result)
        /\ UNCHANGED <<delivered, others>>

NextScenario == OnTrialResultScenario

SpecScenario == InitScenario /\ [][NextScenario]_vars

\* -------------------------------------------- util.py: RegularCallback

\* Time is counted in ticks, TicksPerSecond of them to the second, so that
\* datetime.now() has a sub-second part and call_seconds_frequency may be a
\* fraction of a second.  A time and a frequency are numbers of ticks.
TicksPerSecond == 2
\* Number of calls of one RegularCallback object in a run of SpecCallback.
MaxCallbackCalls == 3
\* timedelta.seconds is the seconds part of days, seconds and microseconds.
DaySeconds == 86400

\* (later - earlier).seconds for later >= earlier: the whole seconds of the
\* difference, without its whole days.
Seconds(earlier, later) == ((later - earlier) \div TicksPerSecond) % DaySeconds

\* Mutant: the callback is also called when the seconds equal the frequency.
DueInclusive(seconds_since_last_call, frequency) ==
    seconds_since_last_call * TicksPerSecond >= frequency

\* seconds_since_last_call > self.frequency
Due(seconds_since_last_call, frequency) ==
    seconds_since_last_call * TicksPerSecond > frequency

\* call_seconds_frequency: 0, 0.5, 1 and 1.5 seconds for two ticks a second.
Frequencies == 0..3
\* Time that passes between two calls: nothing, a tick, a second, more than
\* two seconds, a day less a tick, a day, more than a day.
Delays ==
    {0, 1, TicksPerSecond, 2 * TicksPerSecond + 1,
     DaySeconds * TicksPerSecond - 1, DaySeconds * TicksPerSecond,
     DaySeconds * TicksPerSecond + 2 * TicksPerSecond + 1}
\* Time that passes between the two readings of datetime.now() in a call.
Lags == {0, 1}

\* RegularCallback.__init__ at time now.  invocations are the times at which
\* self.callback was called, calls the number of calls of the object, and
\* called_at the first reading of the clock in the latest call.
RegularCallback_init(call_seconds_frequency, now) ==
    regular_callback =
        [op |-> "__init__", time_last_recent_call |-> now,
         frequency |-> call_seconds_frequency,
         now |-> now, constructed |-> now, invocations |-> <<>>, calls |-> 0,
         called_at |-> now]

\* RegularCallback.__call__: datetime.now() reads now the first time and
\* now + lag the second time.
RegularCallback_call(now, lag) ==
    LET seconds_since_last_call ==
            Seconds(regular_callback.time_last_recent_call, now)
    IN IF Due(seconds_since_last_call, regular_callback.frequency)
       THEN regular_callback' =
                [regular_callback EXCEPT
                    !.op = "__call__", !.calls = @ + 1, !.called_at = now,
                    !.time_last_recent_call = now + lag,
                    !.now = now + lag,
                    !.invocations = Append(@, now + lag)]
       ELSE regular_callback' =
                [regular_callback EXCEPT
                    !.op = "__call__", !.calls = @ + 1, !.called_at = now,
                    !.now = now]

InitCallback ==
    /\ Construct(ScenarioConfiguration)
    /\ delivered = EmptyDict
    /\ \E f \in Frequencies : RegularCallback_init(f, 0)
    /\ naming = Idle /\ tuner = Idle

Call ==
    \E delay \in Delays, lag \in Lags :
        /\ regular_callback.calls < MaxCallbackCalls
        /\ RegularCallback_call(regular_callback.now + delay, lag)
        /\ UNCHANGED <<wrapper_vars, naming, tuner>>

NextCallback == Call

SpecCallback == InitCallback /\ [][NextCallback]_vars

\* ---------------------------------------------- util.py: name_from_base

\* A string is a sequence of characters; "a" stands for the characters of
\* [a-zA-Z0-9], "0" for a digit.  Bases and defaults have up to MaxBaseLen
\* characters.
MaxBaseLen == 5
\* A valid name has one character of [a-zA-Z0-9] and up to 62 more of them.
MaxAlnum == 63

Min(a, b) == IF a <= b THEN a ELSE b
Max(a, b) == IF a >= b THEN a ELSE b

\* s[:stop] of Python: the first stop characters, or for a negative stop all
\* but the last -stop characters.
SliceTo(s, stop) ==
    IF stop >= 0 THEN SubSeq(s, 1, Min(stop, Len(s)))
    ELSE SubSeq(s, 1, Max(0, Len(s) + stop))

\* re.compile("^[a-zA-Z0-9](-*[a-zA-Z0-9]){0,62}$").match(name)
check_valid_sagemaker_name(name) ==
    /\ Len(name) >= 1
    /\ name[1] = "a" /\ name[Len(name)] = "a"
    /\ Cardinality({i \in 1..Len(name) : name[i] = "a"}) <= MaxAlnum

\* time.strftime("%Y-%m-%d-%H-%M-%S-{}".format(moment_ms), ...)
Timestamp(moment_ms) ==
    <<"0", "0", "0", "0", "-", "0", "0", "-", "0", "0", "-",
      "0", "0", "-", "0", "0", "-", "0", "0", "-">> \o moment_ms

\* repr(moment).split(".")[1][:3]: the first digits of the fraction of
\* time.time(), three of them or as many as repr prints.
MomentMs == {<<"0">>, <<"0", "0">>, <<"0", "0", "0">>}

Strings == UNION {[1..n -> {"a", "-"}] : n \in 0..MaxBaseLen}
Bases == {None} \cup {Some(b) : b \in Strings}
Defaults == {<<"a">>, <<"-">>}
MaxLengths == {10, 21, 22, 23, 24, 25, 26, 63}

name_from_base(base, default, max_length, moment_ms) ==
    LET name == IF IsNone(base) THEN default ELSE base[1]
    IN IF ~check_valid_sagemaker_name(name)
       THEN naming' = [op |-> "name_from_base", raised |-> TRUE,
                       base |-> base, default |-> default]
       ELSE LET timestamp == Timestamp(moment_ms)
                trimmed_base == SliceTo(name, max_length - Len(timestamp) - 1)
            IN naming' = [op |-> "name_from_base", raised |-> FALSE,
                          base |-> base, default |-> default,
                          max_length |-> max_length, timestamp |-> timestamp,
                          returned |-> trimmed_base \o <<"-">> \o timestamp]

InitNaming ==
    /\ Construct(ScenarioConfiguration)
    /\ delivered = EmptyDict
    /\ naming = [op |-> "import"]
    /\ regular_callback = Idle /\ tuner = Idle

NameFromBase ==
    \E base \in Bases, default \in Defaults,
       max_length \in MaxLengths, moment_ms \in MomentMs :
        /\ naming.op = "import"    \* one call in a run
        /\ name_from_base(base, default, max_length, moment_ms)
        /\ UNCHANGED <<wrapper_vars, regular_callback, tuner>>

NextNaming == NameFromBase

SpecNaming == InitNaming /\ [][NextNaming]_vars

\* ------------------------------------------------- the Tuner of the example

\* launch_height_sagemaker.py builds Tuner(trial_backend, scheduler,
\* stop_criterion, n_workers, sleep_time) and calls tuner.run().  The
\* orchestration loop is modelled after its specified per-iteration algorithm:
\* 1 suggest and start, 2-4 poll and apply, 5 evaluate the stopping criterion,
\* 6 sleep.  Results are well-formed, so the scheduler does not raise, and a
\* backend call that exhausts its retries shows as the failure of the trial.

\* The worker budget (the example configures 4) and the number of trials the
\* scheduler has configurations for in a run of SpecTuner.
n_workers == 2
MaxTunerTrials == 3
\* StoppingCriterion(max_wallclock_time=5 * 60), in seconds.
max_wallclock_time == 300
\* Tuner(sleep_time=5.0), in seconds.
sleep_time == 5
\* The bounded drain timeout, in seconds.
DrainTimeout == 100

PENDING == "PENDING"
RUNNING == "RUNNING"
PAUSED == "PAUSED"
STOPPED == "STOPPED"
COMPLETED == "COMPLETED"
ERROR == "ERROR"
Terminal == {STOPPED, COMPLETED, ERROR}

\* The endings the backend reports: naturally finished, failed.
FINISHED == "finished"
FAILED == "failed"

NonTerminalTrials(status) == {t \in 1..Len(status) : status[t] \notin Terminal}
NonTerminalCount(status) == Cardinality(NonTerminalTrials(status))

\* Mutant: a suggestion is also requested when the budget is used up.
AdmitsAtBudget(status) == NonTerminalCount(status) <= n_workers

\* Step 1: a suggestion is requested while the non-terminal trials are fewer
\* than the workers.
Admits(status) == NonTerminalCount(status) < n_workers

\* Mutant: a decision is applied whatever the status of the trial.
ApplyUnguarded(status, decision) ==
    CASE decision = STOP -> STOPPED
      [] decision = PAUSE -> PAUSED
      [] OTHER -> status

\* Step 3: the status of a trial after a decision of the scheduler; a
\* decision for a trial that reached a terminal status changes nothing.
Apply(status, decision) ==
    IF status \in Terminal THEN status
    ELSE CASE decision = STOP -> STOPPED
           [] decision = PAUSE -> PAUSED
           [] OTHER -> status

\* Step 4: the status of a trial after the backend reported its ending.
End(status, ending) ==
    IF status \in Terminal THEN status
    ELSE IF ending = FINISHED THEN COMPLETED ELSE ERROR

\* Drain: the status of a trial after the stop at the end of the timeout.
ForceStopped(status) == Apply(status, STOP)

\* Mutant: the criterion waits for more than max_wallclock_time.
TriggersLater(elapsed, status) == elapsed > max_wallclock_time

\* Step 5: StoppingCriterion(max_wallclock_time) on the time since run start.
Triggers(elapsed, status) == elapsed >= max_wallclock_time

\* What a poll reports of one trial: up to two items, each a result (shown by
\* the decision that on_trial_result returns for it) or an ending, in the
\* order in which the loop handles them.
Items == SchedulerDecision \cup {FINISHED, FAILED}
Observations == {<<>>} \cup {<<a>> : a \in Items} \cup {<<a, b>> : a, b \in Items}

\* The status after one item, and the record of what was applied.
Handle(status, item) ==
    IF item \in SchedulerDecision THEN Apply(status, item) ELSE End(status, item)

RECURSIVE HandleAll(_, _)
HandleAll(status, items) ==
    IF items = <<>> THEN status
    ELSE HandleAll(Handle(status, Head(items)), Tail(items))

RECURSIVE Applied(_, _, _)
Applied(trial, status, items) ==
    IF items = <<>> THEN <<>>
    ELSE <<[trial |-> trial, item |-> Head(items), was |-> status,
            after |-> Handle(status, Head(items))]>>
         \o Applied(trial, Handle(status, Head(items)), Tail(items))

\* Time the steps 1 to 5 of an iteration take, in seconds (the backend of the
\* example polls a remote service).
IterationWork == {145, 295}

TunerStep(op, pc) == [tuner EXCEPT !.op = op, !.pc = pc, !.applied = <<>>]

\* Tuner(...) and the start of tuner.run().
Tuner_init ==
    tuner = [op |-> "run", pc |-> "suggest", status |-> <<>>, elapsed |-> 0,
             triggered |-> None, cursor |-> 1, applied |-> <<>>]

\* Step 1, a suggestion for a new trial: the trial is created in PENDING.
SuggestNew ==
    /\ tuner.pc = "suggest" /\ IsNone(tuner.triggered) /\ Admits(tuner.status)
    /\ Len(tuner.status) < MaxTunerTrials
    /\ tuner' = [TunerStep("suggest", "start") EXCEPT
                    !.status = Append(@, PENDING)]

\* Step 1, the backend start call for the new trial.
Start ==
    /\ tuner.pc = "start"
    /\ \E started \in {RUNNING, ERROR} :
           tuner' = [TunerStep("start", "suggest") EXCEPT
                        !.status[Len(tuner.status)] = started]

\* Step 1, a suggestion that resumes a paused trial.
SuggestResume ==
    /\ tuner.pc = "suggest" /\ IsNone(tuner.triggered) /\ Admits(tuner.status)
    /\ \E t \in 1..Len(tuner.status) :
           /\ tuner.status[t] = PAUSED
           /\ tuner' = [TunerStep("suggest", "suggest") EXCEPT
                           !.status[t] = RUNNING]

\* Step 1, the scheduler returns no suggestion.
SuggestNone ==
    /\ tuner.pc = "suggest" /\ IsNone(tuner.triggered) /\ Admits(tuner.status)
    /\ tuner' = [TunerStep("suggest", "poll") EXCEPT !.cursor = 1]

\* Step 1 is over: the budget is used up or the criterion has triggered.
NoSuggest ==
    /\ tuner.pc = "suggest"
    /\ ~IsNone(tuner.triggered) \/ ~Admits(tuner.status)
    /\ tuner' = [TunerStep("poll", "poll") EXCEPT !.cursor = 1]

\* Steps 2 to 4 for one trial that is RUNNING or PAUSED.
Observe ==
    /\ tuner.pc = "poll" /\ tuner.cursor <= Len(tuner.status)
    /\ LET t == tuner.cursor
           was == tuner.status[t]
       IN \E items \in Observations :
              /\ was \notin {RUNNING, PAUSED} => items = <<>>
              /\ tuner' = [TunerStep("observe", "poll") EXCEPT
                              !.status[t] = HandleAll(was, items),
                              !.applied = Applied(t, was, items),
                              !.cursor = t + 1]

\* Step 5: the stopping criterion is evaluated.
Evaluate ==
    /\ tuner.pc = "poll" /\ tuner.cursor > Len(tuner.status)
    /\ IF IsNone(tuner.triggered) /\ ~Triggers(tuner.elapsed, tuner.status)
       THEN tuner' = TunerStep("evaluate", "sleep")
       ELSE tuner' = [TunerStep("evaluate", "drain") EXCEPT
                         !.triggered = IF IsNone(@) THEN Some(tuner.elapsed)
                                       ELSE @]

\* Drain: trials are left that are not terminal, and the timeout is not over.
DrainWait ==
    /\ tuner.pc = "drain" /\ NonTerminalTrials(tuner.status) # {}
    /\ tuner.elapsed - tuner.triggered[1] < DrainTimeout
    /\ tuner' = TunerStep("drain", "sleep")

\* Drain: the timeout is over, the trials that are left are stopped.
ForceStop ==
    /\ tuner.pc = "drain" /\ NonTerminalTrials(tuner.status) # {}
    /\ tuner.elapsed - tuner.triggered[1] >= DrainTimeout
    /\ tuner' = [TunerStep("force_stop", "drain") EXCEPT
                    !.status = [t \in 1..Len(tuner.status) |->
                                   ForceStopped(tuner.status[t])]]

\* Drain: all trials are terminal, the run terminates.
Terminate ==
    /\ tuner.pc = "drain" /\ NonTerminalTrials(tuner.status) = {}
    /\ tuner' = TunerStep("terminate", "terminated")

\* Step 6.
Sleep ==
    /\ tuner.pc = "sleep"
    /\ \E work \in IterationWork :
           tuner' = [TunerStep("sleep", "suggest") EXCEPT
                        !.elapsed = @ + work + sleep_time]

InitTuner ==
    /\ Construct(ScenarioConfiguration)
    /\ delivered = EmptyDict
    /\ Tuner_init
    /\ regular_callback = Idle /\ naming = Idle

NextTuner ==
    /\ \/ SuggestNew \/ Start \/ SuggestResume \/ SuggestNone \/ NoSuggest
       \/ Observe \/ Evaluate \/ DrainWait \/ ForceStop \/ Terminate \/ Sleep
    /\ UNCHANGED <<wrapper_vars, regular_callback, naming>>

SpecTuner == InitTuner /\ [][NextTuner]_vars

\* The loop is one thread of control that runs on until the run terminates.
SpecTunerFair == SpecTuner /\ WF_vars(NextTuner)

\* ------------------------------------------------------------ properties

\* The latest call of on_trial_result returned a decision.
Returned == last.op = "on_trial_result" /\ ~last.raised

\* The sequence recorded at the level of the latest returned call, and the
\* values that were recorded there before that call.
LastLevel == sorted_results[last.time_step]
Siblings == SubSeq(LastLevel, 1, last.index) \o
            SubSeq(LastLevel, last.index + 2, Len(LastLevel))

\* The grace condition as the documentation states it, on the recorded state.
FewSamples ==
    ~IsNone(min_samples_required) /\ Len(LastLevel) < min_samples_required[1]
EarlyLevel == ~IsNone(grace_time) /\ last.time_step < grace_time[1]
\* index / length <= rank_cutoff, without the division
RankWithinCutoff == last.index * rank_cutoff[2] <= rank_cutoff[1] * Len(LastLevel)

DelegatedCall ==
    /\ Len(last.scheduler_calls) = 1
    /\ last.scheduler_calls[1].trial = last.trial
    /\ last.scheduler_calls[1].result = last.result
    /\ last.decision = last.scheduler_calls[1].returned
OwnStop == last.scheduler_calls = <<>> /\ last.decision = STOP

\* C1: under grace or with normalized_rank <= rank_cutoff the wrapped
\* scheduler's on_trial_result is called exactly once, with the same trial and
\* result, and its decision is returned; otherwise the decision is STOP and
\* the wrapped scheduler is not called.
C1_DelegateOrStop ==
    Returned =>
        IF FewSamples \/ EarlyLevel \/ RankWithinCutoff
        THEN DelegatedCall
        ELSE OwnStop

C1_Witness_Delegated ==
    /\ Returned /\ ~FewSamples /\ ~EarlyLevel /\ RankWithinCutoff
    /\ last.index > 0 /\ DelegatedCall /\ last.decision = PAUSE

IsSorted(seq) == \A i \in 1..(Len(seq) - 1) : FLeq(seq[i], seq[i + 1])

\* The least element of a non-empty set of floats.
Least(S) == CHOOSE x \in S : \A y \in S : FLeq(x, y)

RECURSIVE Repeat(_, _)
Repeat(x, n) == IF n = 0 THEN <<>> ELSE <<x>> \o Repeat(x, n - 1)

\* All values of a bag, sorted ascending at once.
RECURSIVE SortAll(_)
SortAll(bag) ==
    IF BagToSet(bag) = {} THEN <<>>
    ELSE LET m == Least(BagToSet(bag))
         IN Repeat(m, CopiesIn(m, bag)) \o
            SortAll([x \in BagToSet(bag) \ {m} |-> bag[x]])

\* C2: at every resource level the recorded sequence is ascending and is the
\* sorted sequence of all the values inserted at that level.
C2_SortedResults ==
    \A level \in DOMAIN sorted_results :
        /\ IsSorted(sorted_results[level])
        /\ sorted_results[level] = SortAll(inserted[level])

\* Three different values at one level, the latest one placed in the middle.
C2_Witness_MiddleInsertion ==
    /\ Returned /\ Len(LastLevel) = 3 /\ last.index = 1
    /\ FLess(LastLevel[1], LastLevel[2]) /\ FLess(LastLevel[2], LastLevel[3])

RECURSIVE AdjustedSum(_)
AdjustedSum(h) ==
    IF h = <<>> THEN 0
    ELSE (IF mode = "max" THEN 0 - Head(h) ELSE Head(h)) + AdjustedSum(Tail(h))

\* C4: the value inserted for a trial's k-th report is the mean of its first k
\* sign-adjusted reports when running_average is on, and the sign-adjusted k-th
\* report itself when it is off.
C4_EffectiveValue ==
    Returned =>
        LET h == reports[last.trial]
            k == Len(h)
            v == LastLevel[last.index + 1]
        IN /\ v = last.new_metric
           /\ h[k] = last.result[metric[1]]
           /\ IF running_average
              THEN v[1] * k = v[2] * AdjustedSum(h)
              ELSE v = <<AdjustedSum(<<h[k]>>), 1>>

\* A third report, made at another level than an earlier one, with a mean that
\* is not a whole number.
C4_Witness_MeanAcrossLevels ==
    /\ Returned /\ running_average /\ mode = "max"
    /\ Len(reports[last.trial]) = 3
    /\ last.new_metric[2] = 3
    /\ Cardinality(DOMAIN sorted_results) = 2

\* The distinct trials that reported so far, one report each, all at level 2.
OneReportEach(n) ==
    /\ Cardinality(DOMAIN reports) = n
    /\ \A t \in DOMAIN reports : Len(reports[t]) = 1
    /\ DOMAIN sorted_results = {2}

\* C5: in the scenario (grace_population 5, grace_time 1, rank_cutoff 0.5,
\* mode "min"), each of five trials reporting 10 at level 2 is decided by the
\* wrapped scheduler, and a sixth trial reporting 20 at level 2 is inserted at
\* index 5 of 6 values, has normalized_rank 5/6 and is stopped.
C5_Scenario ==
    /\ \A n \in 1..5 :
           (Returned /\ OneReportEach(n) /\ sorted_results[2] = Repeat(<<10, 1>>, n))
               => DelegatedCall
    /\ (Returned /\ OneReportEach(6)
            /\ sorted_results[2] = Repeat(<<10, 1>>, 5) \o <<(<<20, 1>>)>>
            /\ last.result["accuracy"] = 20)
           => /\ last.index = 5
              /\ Len(LastLevel) = 6
              /\ last.normalized_rank = <<5, 6>>
              /\ OwnStop

C5_Witness_SixthStopped ==
    /\ Returned /\ OneReportEach(6)
    /\ sorted_results[2] = Repeat(<<10, 1>>, 5) \o <<(<<20, 1>>)>>
    /\ last.result["accuracy"] = 20 /\ last.decision = STOP

\* The value ranked by the latest call, in the orientation of the raw metric:
\* the mean of the trial's raw reports, or the raw report itself.
LastRawValue ==
    IF running_average
    THEN Frac(Sum(reports[last.trial]), Len(reports[last.trial]))
    ELSE <<last.result[metric[1]], 1>>

\* Under mode "max" a recorded value x stands for the raw value -x.
Negated(x) == <<0 - x[1], x[2]>>

\* The latest report is higher than every sibling recorded at its level.
BestUnderMax ==
    /\ Returned /\ mode = "max" /\ Siblings # <<>>
    /\ \A i \in 1..Len(Siblings) : FLess(Negated(Siblings[i]), LastRawValue)

\* C6 as stated: under mode "max" a report higher than all siblings recorded
\* at its level has normalized_rank 1.0.
C6_BestHasRankOne == BestUnderMax => last.normalized_rank = <<1, 1>>

\* C6, amended: under mode "max" a report higher than all siblings recorded at
\* its level is inserted at index 0 and has normalized_rank 0.
C6_BestHasRankZero ==
    BestUnderMax => last.index = 0 /\ last.normalized_rank = <<0, 1>>

C6_Witness_BestUnderMax == BestUnderMax /\ Len(Siblings) = 2 /\ ~running_average

\* The result of a call lacks the metric key or the resource key.
Malformed(keys) ==
    \/ IsNone(metric)
    \/ metric[1] \notin keys
    \/ resource_attr \notin keys

\* C7: a call whose result lacks the metric key or the resource key ends in
\* an error, does not call the wrapped scheduler, and leaves sorted_results
\* and the per-trial histories unchanged.
C7_MalformedResult ==
    [][(last'.op = "on_trial_result" /\ Malformed(last'.keys))
          => /\ last'.raised
             /\ last'.scheduler_calls = <<>>
             /\ sorted_results' = sorted_results
             /\ trial_to_results' = trial_to_results]_vars

\* A result with the metric but without the resource, after some reports.
C7_Witness_MissingResource ==
    /\ last.op = "on_trial_result" /\ last.raised
    /\ last.lookup = "resource_attr" /\ last.keys = {"accuracy"}
    /\ running_average /\ Recorded = 2

\* C8 as stated: constructing the wrapper without a metric around a scheduler
\* without a metric fails.
C8_UnresolvedMetricRejected ==
    (IsNone(arg_metric) /\ ~scheduler.has_metric)
        => (last.op = "__init__" /\ last.raised)

RankCutoffInRange ==
    /\ 0 < rank_cutoff[1]
    /\ rank_cutoff[1] <= rank_cutoff[2]

\* C9 as stated: constructing the wrapper with a rank_cutoff outside (0, 1]
\* fails, so that no such wrapper ever decides.
C9_RankCutoffRejected ==
    ~RankCutoffInRange => (last.op = "__init__" /\ last.raised)

\* C10: without a metric argument the wrapper's metric is that of the wrapped
\* scheduler, if it has one; with a metric argument it is the argument.
C10_MetricResolution ==
    /\ (IsNone(arg_metric) /\ scheduler.has_metric)
           => metric = Some(scheduler.metric)
    /\ ~IsNone(arg_metric) => metric = arg_metric

\* The metric of a "max" scheduler is taken over and read from a result.
C10_Witness_Accuracy ==
    /\ IsNone(arg_metric) /\ scheduler.has_metric /\ scheduler.mode = "max"
    /\ metric = Some("accuracy")
    /\ Returned /\ "accuracy" \in last.keys

\* The latest call was one of the methods that only ask the wrapped scheduler.
PassThroughMethods == {"_suggest", "metric_names", "metric_mode"}

\* C11: _suggest, metric_names and metric_mode call the wrapped scheduler's
\* method once with the same arguments, return exactly what it returns, and
\* change nothing of the wrapper's own state.
C11_PassThrough ==
    [][(last'.op \in PassThroughMethods)
          => /\ Len(last'.scheduler_calls) = 1
             /\ last'.scheduler_calls[1].method = last'.op
             /\ last'.scheduler_calls[1].args = last'.args
             /\ last'.returned = last'.scheduler_calls[1].returned
             /\ UNCHANGED self_vars]_vars

\* A suggestion is passed on by a wrapper that has recorded reports.
C11_Witness_Suggestion ==
    /\ last.op = "_suggest" /\ last.returned = Some("config_b")
    /\ last.args = <<2>> /\ Recorded = 2 /\ running_average

\* The reports delivered so far, as pairs <<trial, number of the report>>, and
\* those among them made at a resource level.
Reported == {p \in (DOMAIN delivered) \X (1..MaxCalls + 1) : p[2] <= Len(delivered[p[1]])}
ReportedAt(level) == {p \in Reported : delivered[p[1]][p[2]][2] = level}

\* The sign-adjusted metric values of the first k reports of a trial.
AdjustedReports(t, k) ==
    [i \in 1..k |-> IF mode = "max" THEN 0 - delivered[t][i][1]
                    ELSE delivered[t][i][1]]

\* The value a report is ranked with, from the reports of its own trial.
ValueOf(p) ==
    IF running_average
    THEN Frac(Sum(AdjustedReports(p[1], p[2])), p[2])
    ELSE <<AdjustedReports(p[1], p[2])[p[2]], 1>>

\* The values of a set of reports, as a bag.
ValuesOf(P) ==
    [v \in {ValueOf(p) : p \in P} |-> Cardinality({p \in P : ValueOf(p) = v})]

\* C12: whatever the interleaving of the trials' reports, the recorded
\* sequences and the running histories are those that the reports of each
\* trial, in their own order, determine, and the latest report is ranked
\* against all the values recorded before it at its level.
C12_InterleavingIndependent ==
    /\ DOMAIN sorted_results = {delivered[p[1]][p[2]][2] : p \in Reported}
    /\ \A level \in DOMAIN sorted_results :
           sorted_results[level] = SortAll(ValuesOf(ReportedAt(level)))
    /\ running_average =>
           /\ DOMAIN trial_to_results = DOMAIN delivered
           /\ \A t \in DOMAIN delivered :
                  trial_to_results[t] = AdjustedReports(t, Len(delivered[t]))
    /\ Returned =>
           LET this == <<last.trial, Len(delivered[last.trial])>>
               before == ReportedAt(last.time_step) \ {this}
           IN last.index =
                  Cardinality({p \in before : FLess(ValueOf(p), last.new_metric)})

\* Two reports of one trial and one of another, all at one level, the latest
\* one ranked behind a report of each trial.
C12_Witness_TwoTrialsOneLevel ==
    /\ Returned /\ DOMAIN sorted_results = {1}
    /\ DOMAIN delivered = {1, 2}
    /\ Len(delivered[1]) = 2 /\ Len(delivered[2]) = 1
    /\ last.trial = 1 /\ last.index = 2

\* A sequence without its element at position i.
Without(a, i) == SubSeq(a, 1, i - 1) \o SubSeq(a, i + 1, Len(a))

\* C13: a call of on_trial_result that returns a decision, STOP or delegated,
\* adds exactly one value to the sequence of the reported level and leaves the
\* sequences of the other levels as they were; a call that fails and the other
\* methods leave all sequences as they were, so no recorded value is removed.
C13_GrowsByOne ==
    [][IF last'.op = "on_trial_result" /\ ~last'.raised
       THEN LET level == last'.time_step
                before == Get(sorted_results, level)
                after == sorted_results'[level]
            IN /\ DOMAIN sorted_results' = DOMAIN sorted_results \cup {level}
               /\ Len(after) = Len(before) + 1
               /\ after[last'.index + 1] = last'.new_metric
               /\ Without(after, last'.index + 1) = before
               /\ \A other \in DOMAIN sorted_results \ {level} :
                      sorted_results'[other] = sorted_results[other]
       ELSE sorted_results' = sorted_results]_vars

\* A call that stopped the trial by the wrapper's own decision still recorded
\* the value, behind the two values recorded before at that level.
C13_Witness_StopStillRecorded ==
    /\ Returned /\ OwnStop
    /\ Len(LastLevel) = 3 /\ last.index = 2
    /\ last.time_step = 2

\* How many siblings of the latest report have a lower recorded value, a
\* value not higher, and a value not lower than the value of the report.
SiblingsBelow == Cardinality({i \in 1..Len(Siblings) : FLess(Siblings[i], last.new_metric)})
SiblingsNotAbove == Cardinality({i \in 1..Len(Siblings) : FLeq(Siblings[i], last.new_metric)})
SiblingsNotBelow == Cardinality({i \in 1..Len(Siblings) : FLeq(last.new_metric, Siblings[i])})

\* C19 as stated: normalized_rank is index / length after insertion, and it is
\* the fraction of the siblings recorded before at the level that the report
\* outperforms or ties, whether a lower or a higher recorded value is taken
\* to be the better one.
C19_RankIsFractionOfSiblings ==
    (Returned /\ Siblings # <<>>) =>
        /\ last.normalized_rank = Frac(last.index, Len(LastLevel))
        /\ \/ last.normalized_rank = Frac(SiblingsNotBelow, Len(Siblings))
           \/ last.normalized_rank = Frac(SiblingsNotAbove, Len(Siblings))

\* C19, amended: normalized_rank is index / length after insertion, which is
\* the number of siblings with a strictly lower recorded value divided by the
\* number of siblings plus one.
C19_RankIsLowerSiblingsOverAll ==
    Returned =>
        /\ last.normalized_rank = Frac(last.index, Len(LastLevel))
        /\ last.normalized_rank = Frac(SiblingsBelow, Len(Siblings) + 1)

\* A report between its two siblings: rank 1/3, while it outperforms or ties
\* one half of them.
C19_Witness_BetweenTwo ==
    /\ Returned /\ Len(Siblings) = 2
    /\ SiblingsBelow = 1 /\ SiblingsNotBelow = 1
    /\ last.normalized_rank = <<1, 3>>

\* The latest report's value is not higher than any value recorded before at
\* its level (so also when it is the first one there).
NotAboveAnySibling ==
    Returned /\ \A i \in 1..Len(Siblings) : FLeq(last.new_metric, Siblings[i])

\* C20: the insertion index is the number of siblings with a strictly lower
\* value, the new value standing before the values equal to it; a report not
\* higher than any sibling has rank 0 and, rank_cutoff being >= 0, is decided
\* by the wrapped scheduler and not stopped by the wrapper.
C20_IndexCountsStrictlyLower ==
    Returned =>
        /\ last.index = SiblingsBelow
        /\ LastLevel[last.index + 1] = last.new_metric
        /\ \A i \in 1..Len(LastLevel) :
               LastLevel[i] = last.new_metric => last.index + 1 <= i
        /\ last.normalized_rank = Frac(last.index, Len(Siblings) + 1)
        /\ NotAboveAnySibling =>
               /\ last.normalized_rank = <<0, 1>>
               /\ FLeq(<<0, 1>>, rank_cutoff) => DelegatedCall /\ ~OwnStop

\* A report that ties with one sibling and is lower than the other, under a
\* cutoff of 0 and without grace: rank 0, decided by the wrapped scheduler.
C20_Witness_TieAtCutoffZero ==
    /\ NotAboveAnySibling /\ Len(Siblings) = 2
    /\ Siblings[1] = last.new_metric /\ Siblings[2] # last.new_metric
    /\ rank_cutoff = <<0, 1>> /\ ~last.grace
    /\ DelegatedCall

\* The time of the invocation before the i-th one, or of the construction.
Previous(i) ==
    IF i = 1 THEN regular_callback.constructed
    ELSE regular_callback.invocations[i - 1]

\* C14: more than call_seconds_frequency seconds lie between two consecutive
\* invocations of the callback and between the construction and the first
\* invocation.
C14_AtMostOncePerFrequency ==
    regular_callback # Idle =>
        \A i \in 1..Len(regular_callback.invocations) :
            regular_callback.invocations[i] - Previous(i)
                > regular_callback.frequency

\* Two invocations among three calls, the second one a second after the
\* first, for a frequency of one tick; the third call was suppressed.
C14_Witness_TwoInvocations ==
    /\ regular_callback # Idle
    /\ regular_callback.frequency = 1
    /\ regular_callback.calls = 3
    /\ Len(regular_callback.invocations) = 2
    /\ regular_callback.invocations[2] - regular_callback.invocations[1]
           = TicksPerSecond
    /\ regular_callback.now > regular_callback.time_last_recent_call

\* C15 as stated: the string that name_from_base returns is not longer than
\* max_length.
C15_NotLongerThanMaxLength ==
    (naming.op = "name_from_base" /\ ~naming.raised) =>
        Len(naming.returned) <= naming.max_length

\* C16: the non-terminal trials never exceed n_workers, and a suggestion is
\* requested only while they are fewer than n_workers.
C16_WorkerBudget ==
    [][/\ NonTerminalCount(tuner'.status) <= n_workers
       /\ tuner'.op = "suggest" => NonTerminalCount(tuner.status) < n_workers]_vars

\* A third trial was suggested after one of two trials reached a terminal
\* status; the budget is used up again.
C16_Witness_BudgetRefilled ==
    /\ tuner # Idle /\ tuner.op = "suggest"
    /\ Len(tuner.status) = 3
    /\ NonTerminalCount(tuner.status) = n_workers

\* C17: a trial in STOPPED, COMPLETED or ERROR keeps its status; a decision
\* applied to such a trial changes nothing and the loop goes on; RUNNING is
\* entered from PENDING at the start and otherwise only from PAUSED, and no
\* trial returns to PENDING.
C17_TerminalIsFinal ==
    [][/\ Len(tuner'.status) >= Len(tuner.status)
       /\ \A t \in 1..Len(tuner.status) :
              /\ tuner.status[t] \in Terminal
                     => tuner'.status[t] = tuner.status[t]
              /\ (tuner'.status[t] = RUNNING /\ tuner.status[t] # RUNNING)
                     => tuner.status[t] \in {PENDING, PAUSED}
              /\ tuner'.status[t] = PENDING => tuner.status[t] = PENDING
       /\ \A i \in 1..Len(tuner'.applied) :
              tuner'.applied[i].was \in Terminal
                  => /\ tuner'.applied[i].after = tuner'.applied[i].was
                     /\ tuner'.pc = "poll"]_vars

\* A STOP decision arrived for a trial that had completed by itself.
C17_Witness_StopAfterCompleted ==
    /\ tuner # Idle /\ Len(tuner.applied) = 2
    /\ tuner.applied[1].item = FINISHED /\ tuner.applied[1].was = RUNNING
    /\ tuner.applied[2].item = STOP /\ tuner.applied[2].was = COMPLETED
    /\ tuner.status[tuner.applied[2].trial] = COMPLETED

Triggered == ~IsNone(tuner.triggered)

\* C18: the criterion triggers at its first evaluation with 300 seconds or
\* more elapsed, whatever the trials; once triggered no suggestion is
\* requested and no trial is created; and a triggered run terminates with all
\* its trials in a terminal status.
C18_WallclockTermination ==
    /\ [](tuner.pc \in {"sleep", "drain", "terminated"}
             => (Triggered <=> tuner.elapsed >= max_wallclock_time))
    /\ [][Triggered => /\ tuner'.op # "suggest"
                       /\ Len(tuner'.status) = Len(tuner.status)
                       /\ tuner'.triggered = tuner.triggered]_vars
    /\ [](tuner.pc = "terminated" => Triggered /\ NonTerminalTrials(tuner.status) = {})
    /\ (tuner.elapsed >= max_wallclock_time) ~> Triggered
    /\ Triggered ~> (tuner.pc = "terminated")

\* The run terminated after the drain timeout with trials that were stopped,
\* and without any trial that completed.
C18_Witness_ForceStopped ==
    /\ tuner # Idle /\ tuner.pc = "terminated"
    /\ tuner.elapsed - tuner.triggered[1] >= DrainTimeout
    /\ Len(tuner.status) = 2
    /\ \A t \in 1..2 : tuner.status[t] = STOPPED

\* The time of the last invocation, or of the construction when there was none.
LastInvocation ==
    IF regular_callback.invocations = <<>> THEN regular_callback.constructed
    ELSE regular_callback.invocations[Len(regular_callback.invocations)]

\* C21 as stated: a call invokes the callback if and only if the whole
\* seconds elapsed since the last invocation (or the construction) exceed
\* call_seconds_frequency, and a call that does not invoke it leaves
\* time_last_recent_call unchanged.
C21_InvokedIffWholeSecondsExceed ==
    [][regular_callback'.calls = regular_callback.calls + 1 =>
          LET invoked == Len(regular_callback'.invocations)
                             = Len(regular_callback.invocations) + 1
              whole_seconds == (regular_callback'.called_at - LastInvocation)
                                   \div TicksPerSecond
          IN /\ invoked <=>
                    whole_seconds * TicksPerSecond > regular_callback.frequency
             /\ ~invoked =>
                    /\ regular_callback'.invocations = regular_callback.invocations
                    /\ regular_callback'.time_last_recent_call
                           = regular_callback.time_last_recent_call]_vars

====
